---- MODULE Spec2Model ----
(***************************************************************************)
(* Model of the chest X-ray analysis core of ml_service:                   *)
(*   - FusionEngine.fuse            (fusion.py)                            *)
(*   - LungSegmenter.get_zonal_masks (segmentation.py)                     *)
(*   - LungSegmenter.calculate_lung_area_ratio (segmentation.py)           *)
(*   - RadiologyFeatureExtractor.extract (features_v2.py)                  *)
(*   - the predict endpoint          (main.py)                             *)
(* Floating-point numbers are modelled as exact rationals <<n, d>> in      *)
(* lowest terms with d > 0.                                                *)
(***************************************************************************)
EXTENDS Integers, Sequences, FiniteSets, TLC

(***************************************************************************)
(* Exact rational arithmetic (stands for Python float arithmetic).         *)
(***************************************************************************)
Abs(x) == IF x < 0 THEN -x ELSE x

RECURSIVE GCD(_, _)
GCD(a, b) == IF b = 0 THEN a ELSE GCD(b, a % b)

Rat(n, d) ==
    LET g == GCD(Abs(n), Abs(d))
        s == IF d < 0 THEN -1 ELSE 1
    IN  <<(s * n) \div g, (s * d) \div g>>

RAdd(a, b) == Rat(a[1] * b[2] + b[1] * a[2], a[2] * b[2])
RSub(a, b) == Rat(a[1] * b[2] - b[1] * a[2], a[2] * b[2])
RMul(a, b) == Rat(a[1] * b[1], a[2] * b[2])
RDiv(a, b) == Rat(a[1] * b[2], a[2] * b[1])
RLt(a, b) == a[1] * b[2] < b[1] * a[2]
RGt(a, b) == RLt(b, a)
RLe(a, b) == ~RLt(b, a)
RGe(a, b) == ~RLt(a, b)
RMin(a, b) == IF RLt(b, a) THEN b ELSE a

Zero == Rat(0, 1)
One == Rat(1, 1)

(***************************************************************************)
(* Bounds of the model.                                                    *)
(***************************************************************************)
MaxCases == 2
MaxH == 4
MaxW == 3
MaxContours == 3
MaxRequests == 3

(***************************************************************************)
(* Thresholds and factors of FusionEngine.fuse.                            *)
(***************************************************************************)
\* Variant: no lung area ratio counts as a failed segmentation
SegFailRatioZero == Rat(0, 100)
SegFailRatio == Rat(1, 100)
MinLungRatio == Rat(10, 100)
MaxLungRatio == Rat(75, 100)
VeryConfident == Rat(9, 10)
\* Variant: a looser cap for a very confident classifier
CapVeryConfidentLoose == Rat(95, 100)
CapVeryConfident == Rat(85, 100)
\* Variant: the cap of the very-confident branch used in both branches
CapAnatomyRiskLoose == Rat(85, 100)
CapAnatomyRisk == Rat(65, 100)
LowDlScore == Rat(10, 100)
ScenarioDlScore == Rat(6, 10)
SymmetricBelow == Rat(1, 10)
\* Variant: the penalty of scenario B used in scenario A
PenaltyADoubled == Rat(4, 10)
PenaltyA == Rat(2, 10)
\* Variant: scenario B already fires above 0.05
NormalAsymAboveLow == Rat(5, 100)
NormalAsymAbove == Rat(25, 100)
\* Variant: the penalty of scenario A used in scenario B
PenaltyBHalved == Rat(2, 10)
PenaltyB == Rat(4, 10)
\* Variant: scenario C already fires above 0.05
ConfirmAsymAboveLow == Rat(5, 100)
ConfirmAsymAbove == Rat(2, 10)
\* Variant: the KNN boost factor used as the confirmation boost
BoostCSmall == Rat(5, 100)
BoostC == Rat(1, 10)
\* Variant: the confirmation boost used as the KNN boost factor
KnnBoostFactorLarge == Rat(1, 10)
KnnBoostFactor == Rat(5, 100)
StrongConsensus == Rat(6, 10)
MismatchFactor == Rat(9, 10)
DefaultSimilarity == Rat(5, 10)
\* Variant: a lower bar for "High Confidence"
HighConfidenceLow == Rat(8, 10)
HighConfidence == Rat(85, 100)

(***************************************************************************)
(* Message texts of fuse; interpolated numbers are left out.               *)
(***************************************************************************)
FlagSegmentation == "Segmentation Warning: Could not detect lungs reliably. Anatomy check skipped."
FlagAnatomy == "Anatomy Unclear: Lung area ratio abnormal. Reliability reduced."
FlagDlModel == "DL Model Warning: Using handcrafted physiological analysis instead of DenseNet."
FlagFalsePositive == "Possible False Positive: Lungs lack expected asymmetry for this condition."
FlagClinicalAlert == "Clinical Alert: AI predicts Normal, but significant asymmetry necessitates review."
FlagMismatch == "Consensus Mismatch: Similar historical cases are mostly {top_neighbor_label}."

AdjCapAbnormal == "Confidence capped at {max_conf_cap} due to abnormal lung area ratio ({lung_ratio})."
AdjCapRisk == "Confidence capped at {max_conf_cap} due to anatomy risk."
AdjHandPneumonia == "HANDCRAFTED MODE: High asymmetry ({asymmetry_max}) + {opacity_count} opacities -> Pneumonia"
AdjHandInfiltration == "HANDCRAFTED MODE: Moderate asymmetry ({asymmetry_max}) -> Infiltration"
AdjHandNormal == "HANDCRAFTED MODE: Low asymmetry ({asymmetry_max}) + {opacity_count} opacities -> Normal"
AdjDowngraded == "Downgraded by {penalty*100}%: High DL confidence but lungs appear symmetric."
AdjNormalReduced == "Normal confidence reduced: Significant opacity asymmetry ({asymmetry_max}) detected."
AdjBoosted == "Confidence Boosted: Physiological asymmetry confirms visual pattern."
AdjVectorDb == "Vector DB: {n} similar cases found. Top Match: {top_neighbor_label} (Consensus: {neighbor_consensus})"
AdjKnnBoosted == "Confidence Boosted by KNN: Similar cases confirm diagnosis."

(***************************************************************************)
(* Dictionaries are sequences of [key, value] entries in insertion order.  *)
(***************************************************************************)
Absent == <<>>
NoLabel == "<missing>"

RECURSIVE HasKey(_, _)
HasKey(d, k) ==
    IF d = <<>> THEN FALSE
    ELSE IF Head(d).key = k THEN TRUE ELSE HasKey(Tail(d), k)

RECURSIVE Get(_, _, _)
Get(d, k, default) ==
    IF d = <<>> THEN default
    ELSE IF Head(d).key = k THEN Head(d).value ELSE Get(Tail(d), k, default)

Entry(k, v) == IF v = Absent THEN <<>> ELSE <<[key |-> k, value |-> v]>>

(***************************************************************************)
(* Inputs of fuse.                                                         *)
(***************************************************************************)
SeqsUpTo(S, n) == UNION {[1..k -> S] : k \in 0..n}

Labels == {"Normal", "Pneumonia"}
ScoreValues ==
    {Rat(-1, 2), Zero, Rat(1, 10), Rat(6, 10), Rat(8, 10), Rat(9, 10),
     Rat(95, 100), Rat(3, 2)}

DistinctKeys(d) == \A i, j \in 1..Len(d) : i # j => d[i].key # d[j].key

\* Scores of the dicts that have one entry per label
PairScores == {Rat(1, 10), Rat(9, 10)}

\* dl_predictions: a non-empty dict label -> score, in either insertion order
DlPredictions ==
    {<<[key |-> l, value |-> v]>> : l \in Labels, v \in ScoreValues}
        \cup {d \in [1..Cardinality(Labels) -> [key : Labels, value : PairScores]] :
                DistinctKeys(d)}

LungValues ==
    {Absent, Rat(1, 100), Rat(5, 100), Rat(10, 100), Rat(75, 100), Rat(80, 100)}
AsymValues ==
    {Absent, Rat(5, 100), Rat(8, 100), Rat(10, 100), Rat(15, 100),
     Rat(20, 100), Rat(25, 100), Rat(35, 100)}
LowerAsymValues == {Absent, Rat(20, 100)}
TextureValue == Rat(90, 100)
OpacityCounts == {Absent, Rat(15, 1), Rat(25, 1), Rat(26, 1)}

\* handcrafted_features: a dict feature name -> value, in the extractor's key order
\* The two asymmetry features of one level: opacity and texture
AsymLevel(level, a) ==
    IF a = Absent THEN <<>>
    ELSE <<[key |-> "asym_" \o level \o "_opacity", value |-> a],
           [key |-> "asym_" \o level \o "_texture", value |-> TextureValue]>>

FeatureVectors ==
    {Entry("lung_area_ratio", l) \o AsymLevel("Upper", u) \o AsymLevel("Lower", lo)
        \o Entry("opacity_count", c) :
        l \in LungValues, u \in AsymValues, lo \in LowerAsymValues, c \in OpacityCounts}

CaseLabels == {"Normal", "Pneumonia"}

\* A record returned by the similarity store: {'metadata': {'label': ..}, 'similarity': ..}
StoreCase(l, s) == [has_metadata |-> TRUE, label |-> l, similarity |-> s]
\* A record without the 'metadata' key: {'label': .., 'similarity': ..}
FlatCase(l, s) == [has_metadata |-> FALSE, label |-> l, similarity |-> s]

\* Records with a label and similarity 1.0
RegularCases == {StoreCase(l, One) : l \in CaseLabels}

\* A record of similarity 0.0, one without label and similarity, one without 'metadata'
IrregularCases ==
    {StoreCase("Normal", Zero), StoreCase(NoLabel, Absent), FlatCase("Pneumonia", One)}

CaseChoices == RegularCases \cup IrregularCases

\* Lists of regular records, and such lists ended by one irregular record
SimilarCaseLists ==
    SeqsUpTo(RegularCases, MaxCases)
        \cup {Append(l, c) : l \in SeqsUpTo(RegularCases, MaxCases - 1),
                             c \in IrregularCases}

(***************************************************************************)
(* FusionEngine.fuse, block by block, on the frame of local variables.     *)
(***************************************************************************)
\* Variant: the last entry of maximal value
RECURSIVE MaxEntryLast(_)
MaxEntryLast(d) ==
    IF Len(d) = 1 THEN Head(d)
    ELSE LET m == MaxEntryLast(Tail(d))
         IN  IF RGt(Head(d).value, m.value) THEN Head(d) ELSE m

\* max(dl_predictions, key=dl_predictions.get): the first entry of maximal value
RECURSIVE MaxEntry(_)
MaxEntry(d) ==
    IF Len(d) = 1 THEN Head(d)
    ELSE LET m == MaxEntry(Tail(d))
         IN  IF RGe(Head(d).value, m.value) THEN Head(d) ELSE m

\* 'asym' in k and 'opacity' in k
HasAsym ==
    {"asym_Upper_opacity", "asym_Lower_opacity", "asym_Upper_texture", "asym_Lower_texture"}
HasOpacity == {"asym_Upper_opacity", "asym_Lower_opacity", "opacity_count"}
IsAsymOpacityKey(k) == k \in HasAsym /\ k \in HasOpacity

\* Variant: every 'asym' key counts, the texture asymmetries included
RECURSIVE AsymmetryMaxAnyAsymKey(_, _)
AsymmetryMaxAnyAsymKey(d, cur) ==
    IF d = <<>> THEN cur
    ELSE AsymmetryMaxAnyAsymKey(Tail(d),
            IF Head(d).key \in HasAsym /\ RGt(Head(d).value, cur)
            THEN Head(d).value ELSE cur)

RECURSIVE AsymmetryMax(_, _)
AsymmetryMax(d, cur) ==
    IF d = <<>> THEN cur
    ELSE AsymmetryMax(Tail(d),
            IF IsAsymOpacityKey(Head(d).key) /\ RGt(Head(d).value, cur)
            THEN Head(d).value ELSE cur)

ExtractKeyInputs(dp, hf) ==
    [dl_top_label |-> MaxEntry(dp).key,
     dl_score |-> MaxEntry(dp).value,
     lung_ratio |-> Get(hf, "lung_area_ratio", Zero),
     asymmetry_max |-> AsymmetryMax(hf, Zero),
     valid_anatomy |-> TRUE,
     max_conf_cap |-> One,
     final_score |-> MaxEntry(dp).value,
     adjustments |-> <<>>,
     flags |-> <<>>,
     raised |-> FALSE]

\* Variant: only the upper limit of the lung area ratio is checked
AnatomyGatekeeperUpperOnly(f) ==
    IF RLt(f.lung_ratio, SegFailRatio)
    THEN [f EXCEPT !.flags = Append(@, FlagSegmentation)]
    ELSE IF RGt(f.lung_ratio, MaxLungRatio)
    THEN IF RGt(f.dl_score, VeryConfident)
         THEN [f EXCEPT !.valid_anatomy = FALSE,
                        !.max_conf_cap = CapVeryConfident,
                        !.adjustments = Append(@, AdjCapAbnormal)]
         ELSE [f EXCEPT !.valid_anatomy = FALSE,
                        !.max_conf_cap = CapAnatomyRisk,
                        !.flags = Append(@, FlagAnatomy),
                        !.adjustments = Append(@, AdjCapRisk)]
    ELSE f

AnatomyGatekeeper(f) ==
    IF RLt(f.lung_ratio, SegFailRatio)
    THEN [f EXCEPT !.flags = Append(@, FlagSegmentation)]
    ELSE IF RLt(f.lung_ratio, MinLungRatio) \/ RGt(f.lung_ratio, MaxLungRatio)
    THEN IF RGt(f.dl_score, VeryConfident)
         THEN [f EXCEPT !.valid_anatomy = FALSE,
                        !.max_conf_cap = CapVeryConfident,
                        !.adjustments = Append(@, AdjCapAbnormal)]
         ELSE [f EXCEPT !.valid_anatomy = FALSE,
                        !.max_conf_cap = CapAnatomyRisk,
                        !.flags = Append(@, FlagAnatomy),
                        !.adjustments = Append(@, AdjCapRisk)]
    ELSE f

LowConfidenceFallback(f, hf) ==
    IF RLt(f.dl_score, LowDlScore)
    THEN LET opacity_count == Get(hf, "opacity_count", Zero)
             g == [f EXCEPT !.flags = Append(@, FlagDlModel)]
         IN  IF RGt(f.asymmetry_max, Rat(15, 100)) \/ RGt(opacity_count, Rat(25, 1))
             THEN [g EXCEPT !.dl_top_label = "Pneumonia",
                            !.final_score = RAdd(Rat(60, 100), RMin(f.asymmetry_max, Rat(30, 100))),
                            !.adjustments = Append(@, AdjHandPneumonia)]
             ELSE IF RGt(f.asymmetry_max, Rat(8, 100)) \/ RGt(opacity_count, Rat(15, 1))
             THEN [g EXCEPT !.dl_top_label = "Infiltration",
                            !.final_score = RAdd(Rat(50, 100),
                                RMin(RMul(f.asymmetry_max, Rat(8, 10)), Rat(25, 100))),
                            !.adjustments = Append(@, AdjHandInfiltration)]
             ELSE [g EXCEPT !.dl_top_label = "Normal",
                            !.final_score = RAdd(Rat(75, 100),
                                RMin(RMul(RSub(Rat(15, 100), f.asymmetry_max), Rat(5, 10)),
                                     Rat(20, 100))),
                            !.adjustments = Append(@, AdjHandNormal)]
    ELSE f

\* Variant: the flag of scenario A is put in front of the earlier flags
ScenarioAFlagFirst(f) ==
    IF f.dl_top_label # "Normal" /\ RGt(f.dl_score, ScenarioDlScore)
        /\ RLt(f.asymmetry_max, SymmetricBelow)
    THEN [f EXCEPT !.final_score = RMul(@, RSub(One, PenaltyA)),
                   !.adjustments = Append(@, AdjDowngraded),
                   !.flags = <<FlagFalsePositive>> \o @]
    ELSE f

ScenarioA(f) ==
    IF f.dl_top_label # "Normal" /\ RGt(f.dl_score, ScenarioDlScore)
        /\ RLt(f.asymmetry_max, SymmetricBelow)
    THEN [f EXCEPT !.final_score = RMul(@, RSub(One, PenaltyA)),
                   !.adjustments = Append(@, AdjDowngraded),
                   !.flags = Append(@, FlagFalsePositive)]
    ELSE f

ScenarioB(f) ==
    IF f.dl_top_label = "Normal" /\ RGt(f.asymmetry_max, NormalAsymAbove)
    THEN [f EXCEPT !.final_score = RMul(@, RSub(One, PenaltyB)),
                   !.adjustments = Append(@, AdjNormalReduced),
                   !.flags = Append(@, FlagClinicalAlert)]
    ELSE f

ScenarioC(f) ==
    IF f.dl_top_label # "Normal" /\ RGt(f.dl_score, ScenarioDlScore)
        /\ RGt(f.asymmetry_max, ConfirmAsymAbove)
    THEN [f EXCEPT !.final_score = RMin(One, RAdd(@, BoostC)),
                   !.adjustments = Append(@, AdjBoosted)]
    ELSE f

\* votes[label] = votes.get(label, 0) + sim, keeping the dict's insertion order
RECURSIVE AddVote(_, _, _)
AddVote(votes, label, sim) ==
    IF votes = <<>> THEN <<[key |-> label, value |-> RAdd(Zero, sim)]>>
    ELSE IF Head(votes).key = label
         THEN <<[Head(votes) EXCEPT !.value = RAdd(@, sim)]>> \o Tail(votes)
         ELSE <<Head(votes)>> \o AddVote(Tail(votes), label, sim)

\* The vote loop; case['metadata'] raises KeyError when the key is missing
RECURSIVE CountVotes(_, _)
CountVotes(cases, acc) ==
    IF cases = <<>> \/ acc.raised THEN acc
    ELSE LET case == Head(cases)
         IN  IF ~case.has_metadata
             THEN [acc EXCEPT !.raised = TRUE]
             ELSE LET label == IF case.label = NoLabel THEN "Unknown" ELSE case.label
                      sim == IF case.similarity = Absent THEN DefaultSimilarity
                             ELSE case.similarity
                  IN  CountVotes(Tail(cases),
                        [acc EXCEPT !.votes = AddVote(@, label, sim),
                                    !.total_weight = RAdd(@, sim)])

KnnConsensus(f, cases) ==
    IF Len(cases) > 0
    THEN LET tally == CountVotes(cases, [votes |-> <<>>, total_weight |-> Zero, raised |-> FALSE])
         IN  IF tally.raised THEN [f EXCEPT !.raised = TRUE]
             ELSE IF RGt(tally.total_weight, Zero)
             THEN LET top_neighbor_label == MaxEntry(tally.votes).key
                      neighbor_consensus == RDiv(MaxEntry(tally.votes).value, tally.total_weight)
                      g == [f EXCEPT !.adjustments = Append(@, AdjVectorDb)]
                  IN  IF top_neighbor_label = f.dl_top_label
                      THEN [g EXCEPT !.final_score =
                                        RMin(One, RAdd(@, RMul(KnnBoostFactor, neighbor_consensus))),
                                     !.adjustments = Append(@, AdjKnnBoosted)]
                      ELSE IF RGt(neighbor_consensus, StrongConsensus)
                      THEN [g EXCEPT !.flags = Append(@, FlagMismatch),
                                     !.final_score = RMul(@, MismatchFactor)]
                      ELSE g
             ELSE f
    ELSE f

\* Variant: the cap step is left out
ApplyCapsSkipped(f) == f

ApplyCaps(f) ==
    IF RGt(f.final_score, f.max_conf_cap)
    THEN [f EXCEPT !.final_score = f.max_conf_cap]
    ELSE f

GenerateSummary(label, score, flags) ==
    IF flags # <<>>
    THEN [kind |-> "Flagged for Review", label |-> label, score |-> score, warnings |-> Len(flags)]
    ELSE IF RGt(score, HighConfidence)
    THEN [kind |-> "High Confidence", label |-> label, score |-> score, warnings |-> 0]
    ELSE [kind |-> "Moderate Confidence", label |-> label, score |-> score, warnings |-> 0]

\* The frame of fuse after each block, up to its return statement (or raise)
FuseStages(dp, hf, cases) ==
    LET gate == AnatomyGatekeeper(ExtractKeyInputs(dp, hf))
        fallback == LowConfidenceFallback(gate, hf)
        scenario_a == ScenarioA(fallback)
        scenario_b == ScenarioB(scenario_a)
        scenario_c == ScenarioC(scenario_b)
        consensus == KnnConsensus(scenario_c, cases)
    IN  [gate |-> gate, fallback |-> fallback, scenario_a |-> scenario_a,
         scenario_b |-> scenario_b, scenario_c |-> scenario_c,
         consensus |-> consensus, final |-> ApplyCaps(consensus)]

FuseResult(f) ==
    [final_diagnosis |-> f.dl_top_label,
     confidence_score |-> f.final_score,
     raw_dl_score |-> f.dl_score,
     adjustments |-> f.adjustments,
     flags |-> f.flags,
     summary |-> GenerateSummary(f.dl_top_label, f.final_score, f.flags)]

(***************************************************************************)
(* LungSegmenter.get_zonal_masks.  A mask is its height, its width and the *)
(* set of its on-pixels <<row, column>>.                                   *)
(***************************************************************************)
Pixels(h, w) == (0..(h - 1)) \X (0..(w - 1))

RECURSIVE SumColumns(_)
SumColumns(S) ==
    IF S = {} THEN 0
    ELSE LET p == CHOOSE q \in S : TRUE
         IN  p[2] + SumColumns(S \ {p})

\* cv2.moments: cX = int(m10 / m00), or w // 2 for the all-zero mask
CentroidX(mask) ==
    IF mask.on # {}
    THEN (255 * SumColumns(mask.on)) \div (255 * Cardinality(mask.on))
    ELSE mask.w \div 2

\* Variant: the centroid column belongs to the right lung too
RightLungInclusive(mask, cX) == {p \in mask.on : p[2] <= cX}

\* mask_right_lung_anatomical: columns [0, cX)
RightLung(mask, cX) == {p \in mask.on : p[2] < cX}
\* mask_left_lung_anatomical: columns [cX, w)
LeftLung(mask, cX) == {p \in mask.on : p[2] >= cX}

\* cv2.findNonZero + cv2.boundingRect, or the full image height
TopY(mask) ==
    IF mask.on # {}
    THEN CHOOSE y \in {p[1] : p \in mask.on} : \A p \in mask.on : y <= p[1]
    ELSE 0
BottomY(mask) ==
    IF mask.on # {}
    THEN 1 + (CHOOSE y \in {p[1] : p \in mask.on} : \A p \in mask.on : y >= p[1])
    ELSE mask.h

\* Variant: the end row belongs to the zone too
CreateZoneInclusive(base_mask, y_start, y_end) ==
    {p \in base_mask : y_start <= p[1] /\ p[1] <= y_end}

\* create_zone: rows [y_start, y_end) of base_mask
CreateZone(base_mask, y_start, y_end) ==
    {p \in base_mask : y_start <= p[1] /\ p[1] < y_end}

\* Variant: third is rounded up, so the upper bands take the spare rows
GetZonalMasksOfCeilThird(mask) ==
    LET cX == CentroidX(mask)
        top_y == TopY(mask)
        bottom_y == BottomY(mask)
        lung_height == bottom_y - top_y
        third == (lung_height + 2) \div 3
        y1 == top_y + third
        y2 == top_y + 2 * third
    IN  [R_Upper |-> CreateZone(RightLung(mask, cX), top_y, y1),
         R_Middle |-> CreateZone(RightLung(mask, cX), y1, y2),
         R_Lower |-> CreateZone(RightLung(mask, cX), y2, bottom_y),
         L_Upper |-> CreateZone(LeftLung(mask, cX), top_y, y1),
         L_Middle |-> CreateZone(LeftLung(mask, cX), y1, y2),
         L_Lower |-> CreateZone(LeftLung(mask, cX), y2, bottom_y)]

\* get_zonal_masks: the six zones of a mask
GetZonalMasksOf(mask) ==
    LET cX == CentroidX(mask)
        top_y == TopY(mask)
        bottom_y == BottomY(mask)
        lung_height == bottom_y - top_y
        third == lung_height \div 3
        y1 == top_y + third
        y2 == top_y + 2 * third
    IN  [R_Upper |-> CreateZone(RightLung(mask, cX), top_y, y1),
         R_Middle |-> CreateZone(RightLung(mask, cX), y1, y2),
         R_Lower |-> CreateZone(RightLung(mask, cX), y2, bottom_y),
         L_Upper |-> CreateZone(LeftLung(mask, cX), top_y, y1),
         L_Middle |-> CreateZone(LeftLung(mask, cX), y1, y2),
         L_Lower |-> CreateZone(LeftLung(mask, cX), y2, bottom_y)]

ZoneNames == {"R_Upper", "R_Middle", "R_Lower", "L_Upper", "L_Middle", "L_Lower"}

(***************************************************************************)
(* State: the arguments of one call of fuse, its frame after each block    *)
(* and what it returned; the argument of one call of get_zonal_masks and   *)
(* what it returned.                                                       *)
(***************************************************************************)
VARIABLES dl_predictions, handcrafted_features, similar_cases, pc, stages, result,
          lung_mask, zones, zpc,
          request, fusion_result, response, ppc,
          image, features, epc,
          area_ratio, rpc,
          raw_image, contours, cv_fails, preprocessed, final_mask, spc,
          root_handlers, log_capture, execution_logs, lpc

fuse_vars == <<dl_predictions, handcrafted_features, similar_cases, pc, stages, result>>
zone_vars == <<lung_mask, zones, zpc>>
predict_vars == <<request, fusion_result, response, ppc>>
extract_vars == <<image, features, epc>>
ratio_vars == <<area_ratio, rpc>>
segment_vars == <<raw_image, contours, cv_fails, preprocessed, final_mask, spc>>
log_vars == <<root_handlers, log_capture, execution_logs, lpc>>
vars == <<fuse_vars, zone_vars, predict_vars, extract_vars, ratio_vars, segment_vars, log_vars>>

NoStages == <<>>
NoResult == <<>>
NoMask == <<>>
NoZones == <<>>
NoRequest == <<>>
NoResponse == <<>>
NoImage == <<>>
NoFeatures == "<none>"
NoRatio == <<>>
NoContours == <<>>
NoLogs == <<>>

\* No call of fuse / of get_zonal_masks is under way
FuseIdle ==
    /\ dl_predictions = <<>>
    /\ handcrafted_features = <<>>
    /\ similar_cases = <<>>
    /\ pc = "idle"
    /\ stages = NoStages
    /\ result = NoResult

ZonesIdle ==
    /\ lung_mask = NoMask
    /\ zones = NoZones
    /\ zpc = "idle"

PredictIdle ==
    /\ request = NoRequest
    /\ fusion_result = NoResult
    /\ response = NoResponse
    /\ ppc = "idle"

ExtractIdle ==
    /\ image = NoImage
    /\ features = NoFeatures
    /\ epc = "idle"

RatioIdle ==
    /\ area_ratio = NoRatio
    /\ rpc = "idle"

SegmentIdle ==
    /\ raw_image = NoImage
    /\ contours = NoContours
    /\ cv_fails = FALSE
    /\ preprocessed = NoImage
    /\ final_mask = NoMask
    /\ spc = "idle"

LogsIdle ==
    /\ root_handlers = {}
    /\ log_capture = NoLogs
    /\ execution_logs = NoLogs
    /\ lpc = "idle"

Init ==
    /\ SegmentIdle
    /\ LogsIdle
    /\ dl_predictions \in DlPredictions
    /\ handcrafted_features \in FeatureVectors
    /\ similar_cases \in SimilarCaseLists
    /\ pc = "call"
    /\ stages = NoStages
    /\ result = NoResult
    /\ ZonesIdle
    /\ PredictIdle
    /\ ExtractIdle
    /\ RatioIdle

\* One call of fuse: it runs to its return statement, or raises KeyError out of
\* the vote loop
Fuse ==
    /\ pc = "call"
    /\ stages' = FuseStages(dl_predictions, handcrafted_features, similar_cases)
    /\ IF stages'.final.raised
       THEN /\ result' = NoResult
            /\ pc' = "raised"
       ELSE /\ result' = FuseResult(stages'.final)
            /\ pc' = "done"
    /\ UNCHANGED <<segment_vars, log_vars, dl_predictions, handcrafted_features, similar_cases, zone_vars,
                   predict_vars, extract_vars, ratio_vars>>

Next == Fuse

Spec == Init /\ [][Next]_vars

InitZones ==
    /\ SegmentIdle
    /\ LogsIdle
    /\ FuseIdle
    /\ PredictIdle
    /\ ExtractIdle
    /\ RatioIdle
    /\ \E h \in 1..MaxH, w \in 1..MaxW :
          \E on \in SUBSET Pixels(h, w) : lung_mask = [h |-> h, w |-> w, on |-> on]
    /\ zones = NoZones
    /\ zpc = "call"

GetZonalMasks ==
    /\ zpc = "call"
    /\ zones' = GetZonalMasksOf(lung_mask)
    /\ zpc' = "done"
    /\ UNCHANGED <<segment_vars, log_vars, fuse_vars, lung_mask, predict_vars, extract_vars, ratio_vars>>

NextZones == GetZonalMasks

SpecZones == InitZones /\ [][NextZones]_vars

(***************************************************************************)
(* The predict endpoint.  A request is what its collaborators do with the  *)
(* uploaded bytes: whether cv2 decodes them and what extract then returns, *)
(* what the classifier does, and what the similarity store does.           *)
(***************************************************************************)
\* DISEASE_LABELS, cut to its first label and Pneumonia
DISEASE_LABELS == <<"Atelectasis", "Pneumonia">>

ModelScores == {Rat(5, 100), Rat(7, 10), Rat(95, 100)}

\* dl_preds[label] = float(preds[0][i]) for every label of DISEASE_LABELS
ModelPredictions ==
    {[i \in 1..Len(DISEASE_LABELS) |-> [key |-> DISEASE_LABELS[i], value |-> sc[i]]] :
        sc \in [1..Len(DISEASE_LABELS) -> ModelScores]}

\* {label: 0.0 for label in DISEASE_LABELS}
ZeroPredictions ==
    [i \in 1..Len(DISEASE_LABELS) |-> [key |-> DISEASE_LABELS[i], value |-> Zero]]

\* What extract returns for bytes that decode: a feature dict, or {} from its
\* except branch
ExtractedVectors ==
    {Entry("lung_area_ratio", l) \o AsymLevel("Upper", u) \o Entry("opacity_count", Zero) :
        l \in {Rat(5, 100), Rat(30, 100)}, u \in {Rat(5, 100), Rat(35, 100)}}
        \cup {<<>>}

ImageOutcomes ==
    {[decodable |-> FALSE, extracted |-> <<>>]}
        \cup {[decodable |-> TRUE, extracted |-> e] : e \in ExtractedVectors}

\* dl_model is None or TensorFlow is missing; inference raises; inference returns
ClassifierOutcomes ==
    {[model |-> "missing", preds |-> <<>>], [model |-> "fails", preds |-> <<>>]}
        \cup {[model |-> "ok", preds |-> p] : p \in ModelPredictions}

\* Records formatted by search_similar; similarity = 1.0 - cosine distance
FoundCases ==
    {StoreCase("Pneumonia", One), StoreCase("Normal", Rat(1, 2)),
     StoreCase(NoLabel, Rat(-1, 2))}

\* vector_db is None; the collection is empty; the query raises; the query returns
StoreOutcomes ==
    {[mode |-> m, found |-> <<>>] : m \in {"none", "empty", "fails"}}
        \cup {[mode |-> "ok", found |-> f] : f \in SeqsUpTo(FoundCases, MaxCases) \ {<<>>}}

Requests == [image : ImageOutcomes, classifier : ClassifierOutcomes, store : StoreOutcomes]

\* handcrafted_feats = feature_extractor.extract(contents)
HandcraftedFeats(req) ==
    IF req.image.decodable THEN req.image.extracted ELSE <<>>

\* Variant: dl_preds keeps its initial value {} when there is no usable classifier
DlPredsNoFallback(req) ==
    IF req.classifier.model = "ok" THEN req.classifier.preds ELSE <<>>

\* STEP 2: the classifier's scores, or 0.0 for every label
DlPreds(req) ==
    IF req.classifier.model = "ok" THEN req.classifier.preds ELSE ZeroPredictions

\* STEP 3: similar_cases = [] unless the store answers
SearchSimilar(req) ==
    IF req.store.mode = "ok" THEN req.store.found ELSE <<>>

\* STEP 4: fusion_engine.fuse(...); max() of an empty dict raises ValueError
CallFuse(dp, hf, cases) ==
    IF dp = <<>> THEN [raised |-> TRUE, value |-> NoResult]
    ELSE LET st == FuseStages(dp, hf, cases)
         IN  IF st.final.raised THEN [raised |-> TRUE, value |-> NoResult]
             ELSE [raised |-> FALSE, value |-> FuseResult(st.final)]

\* response_data as first built, and after the except branch
FailedResponse(with_error) ==
    [status |-> "failed", final_diagnosis |-> NoLabel, confidence_score |-> Absent,
     fusion_adjustments |-> <<>>, safety_flags |-> <<>>, error |-> with_error]

\* response_data after FINALIZE
SuccessResponse(fr) ==
    [status |-> "success", final_diagnosis |-> fr.final_diagnosis,
     confidence_score |-> fr.confidence_score,
     fusion_adjustments |-> fr.adjustments, safety_flags |-> fr.flags, error |-> FALSE]

InitPredict ==
    /\ SegmentIdle
    /\ LogsIdle
    /\ FuseIdle
    /\ ZonesIdle
    /\ ExtractIdle
    /\ RatioIdle
    /\ request \in Requests
    /\ fusion_result = NoResult
    /\ response = NoResponse
    /\ ppc = "call"

\* One request: steps 1 to 4 and FINALIZE, or the except branch
Predict ==
    /\ ppc = "call"
    /\ LET call == CallFuse(DlPreds(request), HandcraftedFeats(request),
                            SearchSimilar(request))
       IN  /\ fusion_result' = call.value
           /\ response' = IF call.raised THEN FailedResponse(TRUE)
                          ELSE SuccessResponse(call.value)
    /\ ppc' = "done"
    /\ UNCHANGED <<segment_vars, log_vars, fuse_vars, zone_vars, request, extract_vars, ratio_vars>>

NextPredict == Predict

SpecPredict == InitPredict /\ [][NextPredict]_vars

(***************************************************************************)
(* RadiologyFeatureExtractor.extract.  An image is what cv2 and the        *)
(* segmenter make of the bytes: whether they decode, the lung mask, the    *)
(* intensity of each pixel column, the number of opacity contours, and the *)
(* feature stage in which a library call raises, if any.                   *)
(***************************************************************************)
Eps == Rat(1, 1000000)

RAbs(a) == <<Abs(a[1]), a[2]>>

Intensities == {0, 1, 2}
OpacityContours == {0, 2}
FeatureStages == {"global", "zonal", "asymmetry", "morphology", "frequency"}

\* Lung masks made of whole rows crossed with whole columns
BlockMasks(h, w) ==
    {[h |-> h, w |-> w, on |-> rows \X cols] :
        rows \in SUBSET (0..(h - 1)), cols \in SUBSET (0..(w - 1))}

\* Bytes that cv2.imdecode rejects
UndecodableImage ==
    [decodable |-> FALSE, lung |-> NoMask, col |-> <<>>, contours |-> 0, fault |-> "none"]

\* A decoded image of MaxH x MaxW pixels
DecodedImage(m, c, n, f) ==
    [decodable |-> TRUE, lung |-> m, col |-> c, contours |-> n, fault |-> f]

\* np.sum of img over a set of pixels
RECURSIVE SumIntensity(_, _)
SumIntensity(S, img) ==
    IF S = {} THEN 0
    ELSE LET p == CHOOSE q \in S : TRUE
         IN  img.col[p[2] + 1] + SumIntensity(S \ {p}, img)

\* np.mean of img over a non-empty set of pixels
MeanOf(S, img) == Rat(SumIntensity(S, img), Cardinality(S))

\* np.std and the LBP entropy of a non-empty zone, the area and compactness of the
\* largest opacity and the Gabor energy are not computed: each stands as a fixed
\* positive value
StdOfZone == Rat(1, 2)
EntropyOfZone == Rat(3, 2)
AreaOfOpacity == Rat(4, 1)
CompactnessOfOpacity == Rat(3, 4)
GaborEnergy == Rat(7, 1)

\* Variant: the share of the off-pixels
CalculateOffAreaRatioOf(mask) ==
    IF mask.h * mask.w = 0 THEN Zero
    ELSE Rat(mask.h * mask.w - Cardinality(mask.on), mask.h * mask.w)

\* calculate_lung_area_ratio: lung_pixels / total_pixels, 0.0 for a mask of size 0
CalculateLungAreaRatioOf(mask) ==
    IF mask.h * mask.w = 0 THEN Zero
    ELSE Rat(Cardinality(mask.on), mask.h * mask.w)

\* global_mean: the mean over the lung pixels, or 1.0
GlobalMean(img) ==
    IF img.lung.on # {} THEN MeanOf(img.lung.on, img) ELSE One

\* 2. Global Anatomy Metrics and the global mean
GlobalMetrics(img) ==
    <<[key |-> "lung_area_ratio", value |-> CalculateLungAreaRatioOf(img.lung)],
      [key |-> "global_lung_mean", value |-> GlobalMean(img)]>>

\* The body of the zone loop for one zone
ZoneMetrics(z_name, z_pixels, img) ==
    IF z_pixels = {}
    THEN <<[key |-> z_name \o "_mean", value |-> Zero],
           [key |-> z_name \o "_std", value |-> Zero],
           [key |-> z_name \o "_entropy", value |-> Zero],
           [key |-> z_name \o "_contrast", value |-> Zero]>>
    ELSE <<[key |-> z_name \o "_mean", value |-> MeanOf(z_pixels, img)],
           [key |-> z_name \o "_norm_mean",
            value |-> RDiv(MeanOf(z_pixels, img), RAdd(GlobalMean(img), Eps))],
           [key |-> z_name \o "_std", value |-> StdOfZone],
           [key |-> z_name \o "_entropy", value |-> EntropyOfZone]>>

\* zones.items(): the insertion order of get_zonal_masks
ZoneOrder == <<"R_Upper", "R_Middle", "R_Lower", "L_Upper", "L_Middle", "L_Lower">>

\* 3. Zonal Analysis
RECURSIVE ZonalAnalysis(_, _, _)
ZonalAnalysis(names, zs, img) ==
    IF names = <<>> THEN <<>>
    ELSE ZoneMetrics(Head(names), zs[Head(names)], img) \o ZonalAnalysis(Tail(names), zs, img)

\* Variant: the difference keeps its sign
AsymmetryOfSigned(l_val, r_val) ==
    RDiv(RSub(l_val, r_val), RAdd(RAdd(l_val, r_val), Eps))

\* abs(l_val - r_val) / (l_val + r_val + 1e-6)
AsymmetryOf(l_val, r_val) ==
    RDiv(RAbs(RSub(l_val, r_val)), RAdd(RAdd(l_val, r_val), Eps))

\* 4. Bilateral Asymmetry, for one level
AsymmetryOfLevel(level, zone_metrics) ==
    <<[key |-> "asym_" \o level \o "_opacity",
       value |-> AsymmetryOf(Get(zone_metrics, "L_" \o level \o "_mean", Zero),
                             Get(zone_metrics, "R_" \o level \o "_mean", Zero))],
      [key |-> "asym_" \o level \o "_texture",
       value |-> AsymmetryOf(Get(zone_metrics, "L_" \o level \o "_entropy", Zero),
                             Get(zone_metrics, "R_" \o level \o "_entropy", Zero))]>>

BilateralAsymmetry(zone_metrics) ==
    AsymmetryOfLevel("Upper", zone_metrics) \o AsymmetryOfLevel("Middle", zone_metrics)
        \o AsymmetryOfLevel("Lower", zone_metrics)

\* 5. Morphology
Morphology(img) ==
    IF img.contours > 0
    THEN <<[key |-> "max_opacity_area", value |-> AreaOfOpacity],
           [key |-> "max_opacity_compactness", value |-> CompactnessOfOpacity],
           [key |-> "opacity_count", value |-> Rat(img.contours, 1)]>>
    ELSE <<[key |-> "max_opacity_area", value |-> Zero],
           [key |-> "max_opacity_compactness", value |-> Zero],
           [key |-> "opacity_count", value |-> Zero]>>

\* 6. Frequency Analysis
Frequency(img) ==
    IF img.lung.on # {}
    THEN <<[key |-> "gabor_mean_energy", value |-> GaborEnergy]>>
    ELSE <<[key |-> "gabor_mean_energy", value |-> Zero]>>

\* extract: {} when the bytes do not decode and when anything in its body raises
ExtractOf(img) ==
    IF ~img.decodable THEN <<>>
    ELSE IF img.fault # "none" THEN <<>>
    ELSE LET zone_metrics == ZonalAnalysis(ZoneOrder, GetZonalMasksOf(img.lung), img)
         IN  GlobalMetrics(img) \o zone_metrics \o BilateralAsymmetry(zone_metrics)
                \o Morphology(img) \o Frequency(img)

InitExtract ==
    /\ SegmentIdle
    /\ LogsIdle
    /\ FuseIdle
    /\ ZonesIdle
    /\ PredictIdle
    /\ RatioIdle
    /\ \/ image = UndecodableImage
       \/ \E m \in BlockMasks(MaxH, MaxW), c \in [1..MaxW -> Intensities],
             n \in OpacityContours, f \in FeatureStages \cup {"none"} :
                image = DecodedImage(m, c, n, f)
    /\ features = NoFeatures
    /\ epc = "call"

\* One call of extract
Extract ==
    /\ epc = "call"
    /\ features' = ExtractOf(image)
    /\ epc' = "done"
    /\ UNCHANGED <<segment_vars, log_vars, fuse_vars, zone_vars, predict_vars, ratio_vars, image>>

NextExtract == Extract

SpecExtract == InitExtract /\ [][NextExtract]_vars

(***************************************************************************)
(* One call of calculate_lung_area_ratio, on masks of any shape, the       *)
(* shapes without pixels included.                                         *)
(***************************************************************************)
InitRatio ==
    /\ SegmentIdle
    /\ LogsIdle
    /\ FuseIdle
    /\ PredictIdle
    /\ ExtractIdle
    /\ \E h \in 0..MaxH, w \in 0..MaxW :
          \E on \in SUBSET Pixels(h, w) : lung_mask = [h |-> h, w |-> w, on |-> on]
    /\ zones = NoZones
    /\ zpc = "idle"
    /\ area_ratio = NoRatio
    /\ rpc = "call"

CalculateLungAreaRatio ==
    /\ rpc = "call"
    /\ area_ratio' = CalculateLungAreaRatioOf(lung_mask)
    /\ rpc' = "done"
    /\ UNCHANGED <<segment_vars, log_vars, fuse_vars, zone_vars, predict_vars, extract_vars>>

NextRatio == CalculateLungAreaRatio

SpecRatio == InitRatio /\ [][NextRatio]_vars

(***************************************************************************)
(* LungSegmenter.preprocess and segment_lungs.  An image is None or an     *)
(* array of h rows and w columns with a set of grey levels; what cv2 finds *)
(* in the preprocessed image is the list of contour areas in findContours  *)
(* order, and whether a cv2 call of segment_lungs raises.                  *)
(***************************************************************************)
\* self.target_size, as (width, height)
TargetSize == <<512, 512>>

\* area > 0.05 * total_area
MinAreaShare == Rat(5, 100)

NoneImage == [kind |-> "None"]
Array(h, w, levels) == [kind |-> "array", h |-> h, w |-> w, levels |-> levels]

RawLevels == {{0}, {7}, {10, 15, 30}, {0, 128, 255}}
RawImages == {NoneImage, Array(0, 0, {})} \cup {Array(2, 3, l) : l \in RawLevels}

\* cv2.contourArea of a contour, for a working image of 512 x 512 = 262144 pixels
ContourAreas == {0, 13107, 13108, 50000}

MinOf(S) == CHOOSE x \in S : \A y \in S : x <= y
MaxOf(S) == CHOOSE x \in S : \A y \in S : x >= y

\* cv2.resize(image, self.target_size): an empty array raises cv2.error
Resize(img) == [img EXCEPT !.h = TargetSize[2], !.w = TargetSize[1]]

\* cv2.normalize(.., 0, 255, cv2.NORM_MINMAX).astype(np.uint8): a flat image goes to 0
Normalize(img) ==
    LET lo == MinOf(img.levels)
        hi == MaxOf(img.levels)
    IN  [img EXCEPT !.levels =
            IF hi = lo THEN {0}
            ELSE {(2 * 255 * (v - lo) + (hi - lo)) \div (2 * (hi - lo)) : v \in img.levels}]

PreprocessOf(img) ==
    IF img.kind = "None"
    THEN [outcome |-> "returned", value |-> NoneImage]
    ELSE IF img.h = 0 \/ img.w = 0
    THEN [outcome |-> "raised", value |-> NoImage]
    ELSE [outcome |-> "returned", value |-> Normalize(Resize(img))]

\* The index of contour i after sorted(contours, key=cv2.contourArea, reverse=True),
\* which keeps the order of contours of equal area
SortedIndex(cnts, i) ==
    Cardinality({j \in 1..Len(cnts) : cnts[j] > cnts[i] \/ (cnts[j] = cnts[i] /\ j < i)})

\* Variant: the loop stops after three contours
SegmentLungsOfTopThree(img, cnts, fails) ==
    IF fails
    THEN [h |-> img.h, w |-> img.w, drawn |-> [i \in 1..Len(cnts) |-> 0]]
    ELSE LET total_area == img.h * img.w
         IN  [h |-> img.h, w |-> img.w,
              drawn |-> [i \in 1..Len(cnts) |->
                            IF SortedIndex(cnts, i) < 3
                                /\ RGt(Rat(cnts[i], 1), RMul(MinAreaShare, Rat(total_area, 1)))
                            THEN 255 ELSE 0]]

\* segment_lungs: final_mask starts as zeros; drawn[i] is the value of the pixels of
\* contour i in it.  Any exception gives np.zeros_like(image).
SegmentLungsOf(img, cnts, fails) ==
    IF fails
    THEN [h |-> img.h, w |-> img.w, drawn |-> [i \in 1..Len(cnts) |-> 0]]
    ELSE LET total_area == img.h * img.w
         IN  [h |-> img.h, w |-> img.w,
              drawn |-> [i \in 1..Len(cnts) |->
                            IF SortedIndex(cnts, i) < 2
                                /\ RGt(Rat(cnts[i], 1), RMul(MinAreaShare, Rat(total_area, 1)))
                            THEN 255 ELSE 0]]

InitSegment ==
    /\ FuseIdle
    /\ ZonesIdle
    /\ PredictIdle
    /\ ExtractIdle
    /\ RatioIdle
    /\ LogsIdle
    /\ raw_image \in RawImages
    /\ IF raw_image.kind = "array" /\ raw_image.h > 0 /\ raw_image.w > 0
       THEN /\ contours \in SeqsUpTo(ContourAreas, MaxContours)
            /\ cv_fails \in BOOLEAN
       ELSE /\ contours = NoContours
            /\ cv_fails = FALSE
    /\ preprocessed = NoImage
    /\ final_mask = NoMask
    /\ spc = "call"

\* One call of preprocess: it returns an array, returns None, or raises
Preprocess ==
    /\ spc = "call"
    /\ LET r == PreprocessOf(raw_image)
       IN  /\ preprocessed' = r.value
           /\ spc' = IF r.outcome = "raised" THEN "raised"
                     ELSE IF r.value.kind = "None" THEN "returned_none"
                     ELSE "preprocessed"
    /\ UNCHANGED <<fuse_vars, zone_vars, predict_vars, extract_vars, ratio_vars, log_vars,
                   raw_image, contours, cv_fails, final_mask>>

\* One call of segment_lungs on the preprocessed image
SegmentLungs ==
    /\ spc = "preprocessed"
    /\ final_mask' = SegmentLungsOf(preprocessed, contours, cv_fails)
    /\ spc' = "done"
    /\ UNCHANGED <<fuse_vars, zone_vars, predict_vars, extract_vars, ratio_vars, log_vars,
                   raw_image, contours, cv_fails, preprocessed>>

NextSegment == Preprocess \/ SegmentLungs

SpecSegment == InitSegment /\ [][NextSegment]_vars

(***************************************************************************)
(* Log capture of concurrent predict requests.  Every request attaches its *)
(* own ListHandler to the root logger, is suspended at await file.read()   *)
(* and runs from there to its return without another suspension.           *)
(***************************************************************************)
RequestIds == 1..MaxRequests

LogRecord(r, msg) == [request |-> r, msg |-> msg]

\* Logger.callHandlers: a record goes to every handler attached to the root logger;
\* ListHandler.emit appends it to that handler's list
Emit(capture, attached, r, msgs) ==
    [h \in RequestIds |->
        IF h \in attached
        THEN capture[h] \o [i \in 1..Len(msgs) |-> LogRecord(r, msgs[i])]
        ELSE capture[h]]

InitLogs ==
    /\ FuseIdle
    /\ ZonesIdle
    /\ PredictIdle
    /\ ExtractIdle
    /\ RatioIdle
    /\ SegmentIdle
    /\ root_handlers = {}
    /\ log_capture = [r \in RequestIds |-> <<>>]
    /\ execution_logs = [r \in RequestIds |-> <<>>]
    /\ lpc = [r \in RequestIds |-> "start"]

\* predict up to await file.read(): addHandler, two records, then suspension
Receive(r) ==
    /\ lpc[r] = "start"
    /\ root_handlers' = root_handlers \cup {r}
    /\ log_capture' = Emit(log_capture, root_handlers', r, <<"Request received", "File">>)
    /\ lpc' = [lpc EXCEPT ![r] = "reading"]
    /\ UNCHANGED <<fuse_vars, zone_vars, predict_vars, extract_vars, ratio_vars,
                   segment_vars, execution_logs>>

\* predict from the return of file.read() to its return statement: the records of
\* the pipeline or of its failure, then removeHandler and execution_logs
Resume(r, ok) ==
    /\ lpc[r] = "reading"
    /\ LET capture == Emit(log_capture, root_handlers, r,
                           IF ok THEN <<"Image read", "Analysis Complete">>
                           ELSE <<"Pipeline failed">>)
       IN  /\ log_capture' = capture
           /\ execution_logs' = [execution_logs EXCEPT ![r] = capture[r]]
    /\ root_handlers' = root_handlers \ {r}
    /\ lpc' = [lpc EXCEPT ![r] = "done"]
    /\ UNCHANGED <<fuse_vars, zone_vars, predict_vars, extract_vars, ratio_vars,
                   segment_vars>>

NextLogs ==
    \/ \E r \in RequestIds : Receive(r)
    \/ \E r \in RequestIds, ok \in BOOLEAN : Resume(r, ok)

SpecLogs == InitLogs /\ [][NextLogs]_vars

(***************************************************************************)
(* What the claims say about the arguments, read off the arguments         *)
(* themselves.                                                             *)
(***************************************************************************)
\* Equality of two rationals, in lowest terms or not
REq(a, b) == a[1] * b[2] = b[1] * a[2]

Contains(seq, x) == \E i \in 1..Len(seq) : seq[i] = x

\* dlScore: the largest score of labelScores
GivenDlScore ==
    CHOOSE v \in {dl_predictions[i].value : i \in 1..Len(dl_predictions)} :
        \A i \in 1..Len(dl_predictions) : ~RLt(v, dl_predictions[i].value)

\* The label of the first entry that carries the largest score
GivenTopLabel ==
    LET i == CHOOSE k \in 1..Len(dl_predictions) :
                /\ dl_predictions[k].value = GivenDlScore
                /\ \A j \in 1..(k - 1) : dl_predictions[j].value # GivenDlScore
    IN  dl_predictions[i].key

GivenFeature(k, default) ==
    IF \E i \in 1..Len(handcrafted_features) : handcrafted_features[i].key = k
    THEN handcrafted_features[
            CHOOSE i \in 1..Len(handcrafted_features) : handcrafted_features[i].key = k].value
    ELSE default

GivenLungRatio == GivenFeature("lung_area_ratio", <<0, 1>>)
GivenOpacityCount == GivenFeature("opacity_count", <<0, 1>>)

\* asymMax: the largest asym_*_opacity value, 0 if there is none above 0
GivenAsymMax ==
    LET vals == {<<0, 1>>} \cup
                {GivenFeature(k, <<0, 1>>) :
                    k \in {"asym_Upper_opacity", "asym_Middle_opacity", "asym_Lower_opacity"}}
    IN  CHOOSE v \in vals : \A u \in vals : ~RLt(v, u)

\* 0.10 <= lung_area_ratio <= 0.75
GivenAnatomyValid ==
    /\ ~RLt(GivenLungRatio, <<10, 100>>)
    /\ ~RLt(<<75, 100>>, GivenLungRatio)

\* 0.01 <= lung_area_ratio < 0.10 or lung_area_ratio > 0.75
GivenAnatomyInvalid ==
    \/ ~RLt(GivenLungRatio, <<1, 100>>) /\ RLt(GivenLungRatio, <<10, 100>>)
    \/ RLt(<<75, 100>>, GivenLungRatio)

(***************************************************************************)
(* Claims about fuse (specification Spec).                                 *)
(***************************************************************************)
\* C1: whatever steps fired, the confidence_score that fuse returns lies in [0, 1].
C1_ConfidenceInUnitInterval ==
    pc = "done" =>
        /\ ~RLt(result.confidence_score, <<0, 1>>)
        /\ ~RLt(<<1, 1>>, result.confidence_score)

\* C1 witness: a call with similar cases whose score was above 1 before the cap step.
C1_Witness ==
    /\ pc = "done"
    /\ similar_cases # <<>>
    /\ RLt(<<1, 1>>, stages.consensus.final_score)
    /\ REq(result.confidence_score, <<1, 1>>)

\* C4: fuse never raises, also for similar cases shaped as in the data model
\* ({id, label, confidence, similarity}).
C4_NeverRaises == pc # "raised"

\* C5: invalid anatomy and dlScore <= 0.9 give a confidence_score <= 0.65 and the
\* "Anatomy Unclear" flag, for any asymmetry and any similar cases.
C5_InvalidAnatomyCapped ==
    (pc = "done" /\ GivenAnatomyInvalid /\ ~RLt(<<9, 10>>, GivenDlScore)) =>
        /\ ~RLt(<<65, 100>>, result.confidence_score)
        /\ Contains(result.flags, FlagAnatomy)

\* C5 witness: such a call, with similar cases, where the cap cut the score down.
C5_Witness ==
    /\ pc = "done"
    /\ GivenAnatomyInvalid
    /\ ~RLt(<<9, 10>>, GivenDlScore)
    /\ similar_cases # <<>>
    /\ RLt(<<65, 100>>, stages.consensus.final_score)
    /\ REq(result.confidence_score, <<65, 100>>)

\* 0.01 <= lung_area_ratio < 0.10: a lung area too small for valid anatomy
GivenLungTooSmall ==
    ~RLt(GivenLungRatio, <<1, 100>>) /\ RLt(GivenLungRatio, <<10, 100>>)

C8_ScenarioC ==
    (/\ pc = "done"
     /\ GivenTopLabel # "Normal"
     /\ RLt(<<6, 10>>, GivenDlScore)
     /\ RLt(<<2, 10>>, GivenAsymMax)
     /\ GivenAnatomyValid
     /\ similar_cases = <<>>) =>
        /\ result.confidence_score = RMin(<<1, 1>>, RAdd(GivenDlScore, <<1, 10>>))
        /\ (RLt(GivenDlScore, <<1, 1>>) => RLt(GivenDlScore, result.confidence_score))
        /\ Contains(result.adjustments, AdjBoosted)

\* C8 witness: Pneumonia 0.8 with asymmetry 0.35 and valid anatomy: 0.9.
C8_Witness ==
    /\ pc = "done"
    /\ GivenTopLabel = "Pneumonia"
    /\ REq(GivenDlScore, <<8, 10>>)
    /\ REq(GivenAsymMax, <<35, 100>>)
    /\ GivenAnatomyValid
    /\ similar_cases = <<>>
    /\ REq(result.confidence_score, <<9, 10>>)

\* C9: scenario B. Top label Normal with dlScore >= 0.10, asymMax > 0.25, valid
\* anatomy and no similar cases returns dlScore x 0.6, a "Normal confidence reduced"
\* adjustment and at least one flag.
C9_ScenarioB ==
    (/\ pc = "done"
     /\ GivenTopLabel = "Normal"
     /\ ~RLt(GivenDlScore, <<10, 100>>)
     /\ RLt(<<25, 100>>, GivenAsymMax)
     /\ GivenAnatomyValid
     /\ similar_cases = <<>>) =>
        /\ result.confidence_score = RMul(GivenDlScore, <<6, 10>>)
        /\ Contains(result.adjustments, AdjNormalReduced)
        /\ Len(result.flags) >= 1

\* C9 witness: Normal 0.9 with asymmetry 0.35 and valid anatomy: 0.54.
C9_Witness ==
    /\ pc = "done"
    /\ GivenTopLabel = "Normal"
    /\ REq(GivenDlScore, <<9, 10>>)
    /\ REq(GivenAsymMax, <<35, 100>>)
    /\ GivenAnatomyValid
    /\ similar_cases = <<>>
    /\ REq(result.confidence_score, <<27, 50>>)

\* The label and the score that the fallback rules of the claim give
ClaimedFallbackLabel ==
    IF RLt(<<15, 100>>, GivenAsymMax) \/ RLt(<<25, 1>>, GivenOpacityCount) THEN "Pneumonia"
    ELSE IF RLt(<<8, 100>>, GivenAsymMax) \/ RLt(<<15, 1>>, GivenOpacityCount)
    THEN "Infiltration"
    ELSE "Normal"

ClaimedFallbackScore ==
    IF ClaimedFallbackLabel = "Pneumonia"
    THEN RAdd(<<60, 100>>, RMin(GivenAsymMax, <<30, 100>>))
    ELSE IF ClaimedFallbackLabel = "Infiltration"
    THEN RAdd(<<50, 100>>, RMin(RMul(<<8, 10>>, GivenAsymMax), <<25, 100>>))
    ELSE RAdd(<<75, 100>>,
              RMin(RMul(<<5, 10>>, RSub(<<15, 100>>, GivenAsymMax)), <<20, 100>>))

\* C10: with dlScore < 0.10 the fallback sets the diagnosis and the score from
\* asymMax and opacity_count by the three rules and appends the DL-model warning;
\* with dlScore >= 0.10 it does not fire and the starting score is dlScore.
C10_LowConfidenceFallback ==
    pc = "done" =>
        IF RLt(GivenDlScore, <<10, 100>>)
        THEN /\ result.final_diagnosis = ClaimedFallbackLabel
             /\ stages.fallback.dl_top_label = ClaimedFallbackLabel
             /\ stages.fallback.final_score = ClaimedFallbackScore
             /\ Contains(result.flags, FlagDlModel)
        ELSE /\ stages.fallback.dl_top_label = GivenTopLabel
             /\ stages.fallback.final_score = GivenDlScore
             /\ stages.fallback = stages.gate
             /\ ~Contains(result.flags, FlagDlModel)

\* C10 witness: all-zero labelScores diagnosed as Infiltration from opacity_count alone.
C10_Witness ==
    /\ pc = "done"
    /\ \A i \in 1..Len(dl_predictions) : REq(dl_predictions[i].value, <<0, 1>>)
    /\ REq(GivenOpacityCount, <<25, 1>>)
    /\ REq(GivenAsymMax, <<1, 20>>)
    /\ result.final_diagnosis = "Infiltration"
    /\ REq(stages.fallback.final_score, <<54, 100>>)
    /\ result.flags = <<FlagDlModel>>

\* The cap that the claim gives for the lung area ratio and dlScore of the call
ClaimedCap ==
    IF RLt(GivenLungRatio, <<1, 100>>) \/ GivenAnatomyValid THEN <<1, 1>>
    ELSE IF RLt(<<9, 10>>, GivenDlScore) THEN <<85, 100>>
    ELSE <<65, 100>>

RECURSIVE GivenVotes(_, _)
GivenVotes(l, n) ==
    IF n = 0 THEN <<0, 1>>
    ELSE IF similar_cases[n].label = l
         THEN RAdd(GivenVotes(l, n - 1), similar_cases[n].similarity)
         ELSE GivenVotes(l, n - 1)

GivenCaseLabels == {similar_cases[i].label : i \in 1..Len(similar_cases)}

GivenTotalWeight ==
    LET RECURSIVE Total(_)
        Total(n) == IF n = 0 THEN <<0, 1>> ELSE RAdd(Total(n - 1), similar_cases[n].similarity)
    IN  Total(Len(similar_cases))

\* The labels with the largest summed weight
GivenTopNeighborLabels ==
    {l \in GivenCaseLabels :
        \A m \in GivenCaseLabels :
            ~RLt(GivenVotes(l, Len(similar_cases)), GivenVotes(m, Len(similar_cases)))}

\* Every similar case carries a label and a similarity
GivenCasesComplete ==
    \A i \in 1..Len(similar_cases) :
        /\ similar_cases[i].has_metadata
        /\ similar_cases[i].label # NoLabel
        /\ similar_cases[i].similarity # Absent

C19_SummaryKind ==
    pc = "done" =>
        /\ result.summary.kind = "Flagged for Review" <=> result.flags # <<>>
        /\ result.summary.kind = "High Confidence" <=>
              (result.flags = <<>> /\ RLt(<<85, 100>>, result.confidence_score))
        /\ result.summary.kind = "Moderate Confidence" <=>
              (result.flags = <<>> /\ ~RLt(<<85, 100>>, result.confidence_score))

\* C19 witness: no flags and a confidence of exactly 0.85 after a KNN boost: the
\* summary is "Moderate Confidence".
C19_Witness ==
    /\ pc = "done"
    /\ result.flags = <<>>
    /\ Contains(result.adjustments, AdjKnnBoosted)
    /\ REq(result.confidence_score, <<85, 100>>)
    /\ result.summary.kind = "Moderate Confidence"

\* The pipeline step that appends a flag / an adjustment
StepOfFlag(f) ==
    IF f \in {FlagSegmentation, FlagAnatomy} THEN 1
    ELSE IF f = FlagDlModel THEN 2
    ELSE IF f = FlagFalsePositive THEN 3
    ELSE IF f = FlagClinicalAlert THEN 4
    ELSE 6

StepOfAdjustment(a) ==
    IF a \in {AdjCapAbnormal, AdjCapRisk} THEN 1
    ELSE IF a \in {AdjHandPneumonia, AdjHandInfiltration, AdjHandNormal} THEN 2
    ELSE IF a = AdjDowngraded THEN 3
    ELSE IF a = AdjNormalReduced THEN 4
    ELSE IF a = AdjBoosted THEN 5
    ELSE 6

\* C20: flags and adjustments come in pipeline order (anatomy gate, fallback,
\* scenarios A, B, C, similarity consensus); with invalid anatomy and dlScore <= 0.9
\* the "Anatomy Unclear" flag is the first element of flags.
C20_PipelineOrder ==
    pc = "done" =>
        /\ \A i, j \in 1..Len(result.flags) :
              i < j => StepOfFlag(result.flags[i]) <= StepOfFlag(result.flags[j])
        /\ \A i, j \in 1..Len(result.adjustments) :
              i < j => StepOfAdjustment(result.adjustments[i])
                            <= StepOfAdjustment(result.adjustments[j])
        /\ (GivenAnatomyInvalid /\ ~RLt(<<9, 10>>, GivenDlScore)) =>
              (result.flags # <<>> /\ result.flags[1] = FlagAnatomy)

\* C20 witness: the gate, scenario A and the similarity consensus each append a flag
\* and an adjustment, in that order.
C20_Witness ==
    /\ pc = "done"
    /\ GivenAnatomyInvalid
    /\ result.flags = <<FlagAnatomy, FlagFalsePositive, FlagMismatch>>
    /\ result.adjustments = <<AdjCapRisk, AdjDowngraded, AdjVectorDb>>

\* A scenario fired when it changed the frame it was given
FiredA == stages.scenario_a # stages.fallback
FiredB == stages.scenario_b # stages.scenario_a
FiredC == stages.scenario_c # stages.scenario_b

\* C25: at most one of the scenarios A, B, C fires in a call of fuse; the score that
\* enters the similarity step is the score after the fallback step, or that score
\* x 0.8 (A), x 0.6 (B) or + 0.1 kept at most 1.0 (C), never two of these combined.
C25_AtMostOneScenario ==
    pc = "done" =>
        LET before == stages.fallback.final_score
            after == stages.scenario_c.final_score
        IN  /\ ~(FiredA /\ FiredB) /\ ~(FiredA /\ FiredC) /\ ~(FiredB /\ FiredC)
            /\ \/ ~FiredA /\ ~FiredB /\ ~FiredC /\ REq(after, before)
               \/ FiredA /\ REq(after, RMul(before, <<8, 10>>))
               \/ FiredB /\ REq(after, RMul(before, <<6, 10>>))
               \/ FiredC /\ REq(after, RMin(<<1, 1>>, RAdd(before, <<1, 10>>)))

\* C25 witness: Pneumonia 0.8 with asymmetry 0.25: scenario C alone fires and the
\* score goes from 0.8 to 0.9.
C25_Witness ==
    /\ pc = "done"
    /\ GivenTopLabel = "Pneumonia"
    /\ REq(GivenDlScore, <<8, 10>>)
    /\ REq(GivenAsymMax, <<25, 100>>)
    /\ FiredC /\ ~FiredA /\ ~FiredB
    /\ REq(stages.scenario_c.final_score, <<9, 10>>)

\* C26: whenever the fallback fires (dlScore < 0.10), none of the scenarios A, B, C
\* fires afterwards, and the score that enters the similarity step is exactly the
\* value of the fallback formula.
C26_FallbackExcludesScenarios ==
    (pc = "done" /\ RLt(GivenDlScore, <<10, 100>>)) =>
        /\ ~FiredA /\ ~FiredB /\ ~FiredC
        /\ REq(stages.scenario_c.final_score, ClaimedFallbackScore)
        /\ ~Contains(result.flags, FlagFalsePositive)
        /\ ~Contains(result.flags, FlagClinicalAlert)
        /\ ~Contains(result.adjustments, AdjBoosted)

\* C26 witness: all scores 0 and asymmetry 0.35: the fallback diagnoses Pneumonia
\* at 0.90 and no scenario touches it, though the label is not Normal and the
\* asymmetry is above 0.2.
C26_Witness ==
    /\ pc = "done"
    /\ REq(GivenDlScore, <<0, 1>>)
    /\ REq(GivenAsymMax, <<35, 100>>)
    /\ result.final_diagnosis = "Pneumonia"
    /\ REq(stages.scenario_c.final_score, <<90, 100>>)

\* C27: whenever dlScore >= 0.10, the final_diagnosis is the label of the largest
\* score (the first such label in iteration order on ties); no step changes the
\* label, even when the similar cases strongly disagree.
C27_DiagnosisIsTopLabel ==
    (pc = "done" /\ ~RLt(GivenDlScore, <<10, 100>>)) =>
        /\ result.final_diagnosis = GivenTopLabel
        /\ \A st \in {"gate", "fallback", "scenario_a", "scenario_b", "scenario_c",
                       "consensus", "final"} : stages[st].dl_top_label = GivenTopLabel

\* C27 witness: two labels tied at 0.1, the first one wins, and two similar cases
\* both carry the other label ("Consensus Mismatch" is flagged).
C27_Witness ==
    /\ pc = "done"
    /\ Len(dl_predictions) = 2
    /\ REq(dl_predictions[1].value, <<1, 10>>)
    /\ REq(dl_predictions[2].value, <<1, 10>>)
    /\ Len(similar_cases) = 2
    /\ \A i \in 1..2 : similar_cases[i].label = dl_predictions[2].key
    /\ Contains(result.flags, FlagMismatch)
    /\ result.final_diagnosis = dl_predictions[1].key

\* C28: whenever the summary starts with "High Confidence", the anatomy is valid
\* (0.10 <= lung_area_ratio <= 0.75) and the fallback did not fire (dlScore >= 0.10).
C28_HighConfidenceMeansValid ==
    (pc = "done" /\ result.summary.kind = "High Confidence") =>
        /\ GivenAnatomyValid
        /\ ~RLt(GivenDlScore, <<10, 100>>)

\* C28 witness: a "High Confidence" summary at the upper limit 0.75 of the valid
\* lung area ratio.
C28_Witness ==
    /\ pc = "done"
    /\ result.summary.kind = "High Confidence"
    /\ REq(GivenLungRatio, <<75, 100>>)
    /\ RLt(<<85, 100>>, result.confidence_score)

\* C29: fuse called with an empty FeatureVector, a largest labelScore below 0.10
\* and no similar cases returns "Normal" with confidence 0.825 and exactly two
\* flags: the segmentation warning, then the DL-model warning.
C29_EmptyFeaturesLowScore ==
    (pc = "done" /\ handcrafted_features = <<>> /\ RLt(GivenDlScore, <<10, 100>>)
        /\ similar_cases = <<>>) =>
        /\ result.final_diagnosis = "Normal"
        /\ REq(result.confidence_score, <<825, 1000>>)
        /\ result.flags = <<FlagSegmentation, FlagDlModel>>

\* C29 witness: {"Pneumonia": 0.0}, {} and [] give Normal at 0.825.
C29_Witness ==
    /\ pc = "done"
    /\ dl_predictions = <<[key |-> "Pneumonia", value |-> <<0, 1>>]>>
    /\ handcrafted_features = <<>>
    /\ similar_cases = <<>>
    /\ result.final_diagnosis = "Normal"
    /\ REq(result.confidence_score, <<33, 40>>)
    /\ Len(result.flags) = 2

C12_DecodeFailureIsTerminal ==
    (ppc = "done" /\ ~request.image.decodable) =>
        /\ fusion_result = NoResult
        /\ response.status = "failed"
        /\ response.final_diagnosis = NoLabel
        /\ response.confidence_score = Absent

(***************************************************************************)
(* Claims about extract (specification SpecExtract).                       *)
(***************************************************************************)
ReturnedHas(k) == \E i \in 1..Len(features) : features[i].key = k

ReturnedValue(k) == features[CHOOSE i \in 1..Len(features) : features[i].key = k].value

\* The feature keys that each stage writes
ClaimedStageKeys(stage) ==
    IF stage = "global" THEN {"lung_area_ratio"}
    ELSE IF stage = "zonal"
    THEN {z \o m : z \in ZoneNames, m \in {"_mean", "_norm_mean", "_std", "_entropy"}}
    ELSE IF stage = "asymmetry"
    THEN {"asym_" \o l \o m : l \in {"Upper", "Middle", "Lower"}, m \in {"_opacity", "_texture"}}
    ELSE IF stage = "morphology"
    THEN {"max_opacity_area", "max_opacity_compactness", "opacity_count"}
    ELSE {"gabor_mean_energy"}

\* C13: when one feature stage fails on a decodable image, extract still returns a
\* FeatureVector in which that stage's features are 0.0; the empty FeatureVector is
\* returned only when the image cannot be decoded.
C13_StageFailureIsolated ==
    (epc = "done" /\ image.decodable) =>
        /\ features # <<>>
        /\ image.fault # "none" =>
              \A k \in ClaimedStageKeys(image.fault) :
                  ReturnedHas(k) /\ REq(ReturnedValue(k), <<0, 1>>)

\* C14: for every zone without on-pixels the returned FeatureVector has the keys
\* {zone}_mean, {zone}_norm_mean, {zone}_std and {zone}_entropy, each 0.0.
C14_EmptyZoneKeys ==
    (epc = "done" /\ image.decodable /\ image.fault = "none") =>
        \A z \in ZoneNames :
            GetZonalMasksOf(image.lung)[z] = {} =>
                \A m \in {"_mean", "_norm_mean", "_std", "_entropy"} :
                    ReturnedHas(z \o m) /\ REq(ReturnedValue(z \o m), <<0, 1>>)

\* The mean of a zone as the FeatureVector reports it
ReturnedMean(side, level) == ReturnedValue(side \o "_" \o level \o "_mean")

\* C16: for each level, asym_{level}_opacity is |L_mean - R_mean| / (L_mean + R_mean
\* + 1e-6); it is 0 exactly when the L and R zone means of the level are equal (both
\* zones empty included) and strictly positive when they differ.
C16_AsymmetryZeroIffEqual ==
    (epc = "done" /\ features # <<>>) =>
        \A level \in {"Upper", "Middle", "Lower"} :
            LET asym == ReturnedValue("asym_" \o level \o "_opacity")
                l == ReturnedMean("L", level)
                r == ReturnedMean("R", level)
            IN  /\ asym = RDiv(IF RLt(l, r) THEN RSub(r, l) ELSE RSub(l, r),
                               RAdd(RAdd(l, r), <<1, 1000000>>))
                /\ REq(asym, <<0, 1>>) <=> REq(l, r)
                /\ ~REq(l, r) => RLt(<<0, 1>>, asym)

\* C16 witness: the upper level has two empty zones and asymmetry 0, the lower level
\* has a right zone brighter than the left one and a positive asymmetry.
C16_Witness ==
    /\ epc = "done"
    /\ features # <<>>
    /\ GetZonalMasksOf(image.lung)["L_Upper"] = {}
    /\ GetZonalMasksOf(image.lung)["R_Upper"] = {}
    /\ REq(ReturnedValue("asym_Upper_opacity"), <<0, 1>>)
    /\ GetZonalMasksOf(image.lung)["R_Lower"] # {}
    /\ RLt(ReturnedMean("L", "Lower"), ReturnedMean("R", "Lower"))
    /\ RLt(<<0, 1>>, ReturnedMean("L", "Lower"))
    /\ RLt(<<0, 1>>, ReturnedValue("asym_Lower_opacity"))

(***************************************************************************)
(* Claims about calculate_lung_area_ratio (specification SpecRatio).       *)
(***************************************************************************)
\* C15: calculate_lung_area_ratio returns on-pixel count / total pixel count, a value
\* in [0, 1] that is 0 for the all-zero mask and 1 for the all-255 mask; for a mask
\* with no pixels at all it returns 0.0.
C15_LungAreaRatio ==
    rpc = "done" =>
        LET total == lung_mask.h * lung_mask.w
            count == Cardinality(lung_mask.on)
        IN  /\ total > 0 => area_ratio[1] * total = count * area_ratio[2]
            /\ total = 0 => REq(area_ratio, <<0, 1>>)
            /\ ~RLt(area_ratio, <<0, 1>>) /\ ~RLt(<<1, 1>>, area_ratio)
            /\ count = 0 => REq(area_ratio, <<0, 1>>)
            /\ (total > 0 /\ count = total) => REq(area_ratio, <<1, 1>>)

\* C15 witness: a mask of 2 x 3 pixels with 4 on-pixels has ratio 2/3.
C15_Witness ==
    /\ rpc = "done"
    /\ lung_mask.h = 2
    /\ lung_mask.w = 3
    /\ Cardinality(lung_mask.on) = 4
    /\ REq(area_ratio, <<2, 3>>)

(***************************************************************************)
(* Claims about get_zonal_masks (specification SpecZones).                 *)
(***************************************************************************)
\* C2: the six zone masks are pairwise disjoint and the union of their on-pixels is
\* exactly the set of on-pixels of the lung mask.
C2_ZonesPartitionMask ==
    zpc = "done" =>
        /\ \A a, b \in ZoneNames : a # b => zones[a] \cap zones[b] = {}
        /\ UNION {zones[a] : a \in ZoneNames} = lung_mask.on

\* C2 witness: a mask with a bounding box of 4 rows (not a multiple of 3) and pixels
\* in both lungs, in the lower band's extra row and in the upper band.
C2_Witness ==
    /\ zpc = "done"
    /\ {p[1] : p \in lung_mask.on} = 0..3
    /\ \E p \in zones["R_Lower"] : p[1] = 3
    /\ \E p \in zones["L_Lower"] : p[1] = 2
    /\ zones["L_Upper"] # {}
    /\ zones["R_Upper"] # {}

\* Rows of the mask that hold an on-pixel of either lung's zone at this level
ZoneRows(level) == {p[1] : p \in zones["R_" \o level] \cup zones["L_" \o level]}

GivenMaskRows == {p[1] : p \in lung_mask.on}

\* Every row of the bounding box holds an on-pixel, so a band's rows can be
\* counted in its two zones
GivenSolidRows ==
    /\ GivenMaskRows # {}
    /\ \A y \in 0..MaxH : (\E a, b \in GivenMaskRows : a <= y /\ y <= b) => y \in GivenMaskRows

GivenBoxHeight == Cardinality(GivenMaskRows)

\* C21 as stated: the Upper, Middle and Lower bands of the bounding box cover the
\* same number of rows, whatever the height of the bounding box.
C21_EqualThirds ==
    (zpc = "done" /\ GivenSolidRows) =>
        /\ Cardinality(ZoneRows("Upper")) = Cardinality(ZoneRows("Middle"))
        /\ Cardinality(ZoneRows("Middle")) = Cardinality(ZoneRows("Lower"))

\* C21 amended: Upper and Middle each cover floor(height / 3) rows and Lower covers
\* the remaining height - 2 * floor(height / 3) rows, in this order from the top.
C21_FloorThirds ==
    (zpc = "done" /\ GivenSolidRows) =>
        /\ Cardinality(ZoneRows("Upper")) = GivenBoxHeight \div 3
        /\ Cardinality(ZoneRows("Middle")) = GivenBoxHeight \div 3
        /\ Cardinality(ZoneRows("Lower")) = GivenBoxHeight - 2 * (GivenBoxHeight \div 3)
        /\ \A u \in ZoneRows("Upper"), m \in ZoneRows("Middle") : u < m
        /\ \A m \in ZoneRows("Middle"), l \in ZoneRows("Lower") : m < l
        /\ \A u \in ZoneRows("Upper"), l \in ZoneRows("Lower") : u < l

\* C21 witness: a bounding box of 4 rows, every row lit, split 1 + 1 + 2.
C21_Witness ==
    /\ zpc = "done"
    /\ GivenSolidRows
    /\ GivenBoxHeight = 4
    /\ Cardinality(ZoneRows("Upper")) = 1
    /\ Cardinality(ZoneRows("Lower")) = 2

\* floor(mean column of the on-pixels), for masks of up to 5 columns
GivenCentroidX ==
    LET n(c) == Cardinality({p \in lung_mask.on : p[2] = c})
    IN  IF lung_mask.on = {} THEN lung_mask.w \div 2
        ELSE (n(1) + 2 * n(2) + 3 * n(3) + 4 * n(4)) \div Cardinality(lung_mask.on)

GivenRightZones == zones["R_Upper"] \cup zones["R_Middle"] \cup zones["R_Lower"]
GivenLeftZones == zones["L_Upper"] \cup zones["L_Middle"] \cup zones["L_Lower"]

\* C22: every on-pixel left of the centroid column cX is in an R_ zone and in no L_
\* zone, every on-pixel at or right of cX is in an L_ zone and in no R_ zone; for
\* the all-zero mask cX is width / 2, the bounding box is the full image height,
\* and all six zones are all-zero.
C22_SplitAtCentroid ==
    zpc = "done" =>
        /\ \A p \in lung_mask.on :
              IF p[2] < GivenCentroidX
              THEN p \in GivenRightZones /\ p \notin GivenLeftZones
              ELSE p \in GivenLeftZones /\ p \notin GivenRightZones
        /\ lung_mask.on = {} =>
              /\ CentroidX(lung_mask) = lung_mask.w \div 2
              /\ TopY(lung_mask) = 0
              /\ BottomY(lung_mask) = lung_mask.h
              /\ \A a \in ZoneNames : zones[a] = {}

\* C22 witness: a 3-column mask whose centroid column is 1, with on-pixels in
\* column 0 (right lung), column 1 and column 2 (left lung).
C22_Witness ==
    /\ zpc = "done"
    /\ GivenCentroidX = 1
    /\ \E p \in GivenRightZones : p[2] = 0
    /\ \E p \in GivenLeftZones : p[2] = 1
    /\ \E p \in GivenLeftZones : p[2] = 2

(***************************************************************************)
(* Claims about preprocess and segment_lungs (specification SpecSegment).  *)
(***************************************************************************)
\* Regions whose area is strictly above 5% of the 512 x 512 image
GivenLargeRegions == {i \in 1..Len(contours) : contours[i] * 100 > 5 * 512 * 512}

KeptRegions == {i \in 1..Len(contours) : final_mask.drawn[i] = 255}

GivenEmptyInput == raw_image.kind = "None" \/ raw_image.h = 0 \/ raw_image.w = 0

\* C24: preprocess fails only when its input is empty, and then it yields a buffer
\* of zeros: it neither raises nor returns null.
C24_PreprocessFailsToZeros ==
    spc # "call" =>
        /\ spc # "raised"
        /\ spc # "returned_none"
        /\ GivenEmptyInput => (preprocessed.kind = "array" /\ preprocessed.levels = {0})

(***************************************************************************)
(* Claims about the log capture of predict (specification SpecLogs).       *)
(***************************************************************************)
\* C30: for any interleaving of concurrent predict requests, the execution_logs of
\* a response contain only records emitted while handling that same request.
C30_LogsOnlyOwnRecords ==
    \A r \in RequestIds :
        lpc[r] = "done" =>
            \A i \in 1..Len(execution_logs[r]) : execution_logs[r][i].request = r

====
